---- MODULE Spec2Model ----
(***************************************************************************)
(* A model of kgtk/join/kgtkvalue.py: the KgtkValue cell wrapper, its      *)
(* lazily cached list split, the per-item predicates and validators, and   *)
(* the aggregate is_valid / describe.                                      *)
(*                                                                         *)
(* A Python str is a sequence of one-character strings.  A compiled        *)
(* regular expression is modelled by the language it denotes: a pattern p  *)
(* is a value, and Ends(p, s, i) is the set of positions j such that       *)
(* s[i..j-1] matches p.  idx is None (the empty tuple) or <<n>>.           *)
(***************************************************************************)
EXTENDS Integers, Sequences, FiniteSets, TLC

(***************************************************************************)
(* Bounds of the model.                                                    *)
(***************************************************************************)
MaxIdx == 1
MaxItems == 2
MaxListLen == 4
MaxRestLen == 2
MaxNumLen == 4
MaxStrLen == 4
MaxTagLen == 4
MaxPrimaryLen == 3
MaxSubTagLen == 1
MaxMonth == 13
MaxDay == 32
NumThreads == 2
MaxItemLen == 2

(***************************************************************************)
(* Characters and character classes.                                       *)
(***************************************************************************)
None == <<>>

LowerSeq == <<"a","b","c","d","e","f","g","h","i","j","k","l","m",
              "n","o","p","q","r","s","t","u","v","w","x","y","z">>
UpperSeq == <<"A","B","C","D","E","F","G","H","I","J","K","L","M",
              "N","O","P","Q","R","S","T","U","V","W","X","Y","Z">>
Range(f) == {f[i] : i \in DOMAIN f}
Lower == Range(LowerSeq)
Upper == Range(UpperSeq)
Letters == Lower \cup Upper
Digits == {"0","1","2","3","4","5","6","7","8","9"}
WordChars == Letters \cup Digits \cup {"_"}
Newline == "\n"
Backslash == "\\"

\* str.lower() on one character, and on a str.
lower_char(c) ==
    IF c \in Upper
    THEN LowerSeq[CHOOSE i \in DOMAIN UpperSeq : UpperSeq[i] = c]
    ELSE c
\* Mutant: the tag is looked up as written, without str.lower().
lower_as_written(s) == s
\* str.lower()
lower(s) == [i \in 1..Len(s) |-> lower_char(s[i])]

\* All strings over an alphabet, of length at most n.
StringsUpTo(A, n) == UNION {[1..k -> A] : k \in 0..n}

(***************************************************************************)
(* Regular expressions (module re).  A pattern is a value, built as the    *)
(* source builds its pattern strings; Ends gives the positions where a     *)
(* match of the pattern that starts at position i can end.                 *)
(***************************************************************************)
\* [...]: one character of the class c.
Ch(c) == [t |-> "ch", c |-> c]
\* [^...]: one character outside the class c.
NotCh(c) == [t |-> "notch", c |-> c]
\* '.': any character except a newline.
Dot == NotCh({Newline})
\* The characters of the word w, one after the other.
Lit(w) == [t |-> "lit", w |-> w]
\* The patterns of the sequence ps, one after the other.
Cat(ps) == [t |-> "cat", ps |-> ps]
\* p1|p2|...: one of the patterns of the sequence ps.
Alt(ps) == [t |-> "alt", ps |-> ps]
\* p?
Opt(p) == Alt(<<p, Lit(<<>>)>>)
\* p*
Star(p) == [t |-> "star", p |-> p]
\* p+
Plus(p) == Cat(<<p, Star(p)>>)

RECURSIVE Ends(_, _, _)
RECURSIVE CatEnds(_, _, _, _)
RECURSIVE StarEnds(_, _, _)
Ends(p, s, i) ==
    CASE p.t = "ch" -> IF i <= Len(s) /\ s[i] \in p.c THEN {i + 1} ELSE {}
      [] p.t = "notch" -> IF i <= Len(s) /\ s[i] \notin p.c THEN {i + 1} ELSE {}
      [] p.t = "lit" -> IF i + Len(p.w) - 1 <= Len(s)
                           /\ SubSeq(s, i, i + Len(p.w) - 1) = p.w
                        THEN {i + Len(p.w)} ELSE {}
      [] p.t = "cat" -> CatEnds(p.ps, 1, s, {i})
      [] p.t = "alt" -> UNION {Ends(p.ps[k], s, i) : k \in DOMAIN p.ps}
      [] p.t = "star" -> StarEnds(p.p, s, {i})
\* The patterns ps[k], ps[k+1], ... in a row, from every position of S.
CatEnds(ps, k, s, S) ==
    IF k > Len(ps) \/ S = {} THEN S
    ELSE CatEnds(ps, k + 1, s, UNION {Ends(ps[k], s, j) : j \in S})
\* Any number of matches of p in a row, from every position of S.
StarEnds(p, s, S) ==
    LET more == S \cup UNION {Ends(p, s, j) : j \in S}
    IN  IF more = S THEN S ELSE StarEnds(p, s, more)

\* '$' matches at the end of the string and just before a newline that
\* ends the string.
AtEnd(s, j) == j = Len(s) + 1 \/ (j = Len(s) /\ s[j] = Newline)
\* re.compile('^' + p + '$').match(s) is not None.
Matches(p, s) == \E j \in Ends(p, s, 1) : AtEnd(s, j)

(***************************************************************************)
(* KgtkFormat constants.                                                   *)
(***************************************************************************)
LIST_SEPARATOR == "|"
TRUE_SYMBOL == <<"T","r","u","e">>
FALSE_SYMBOL == <<"F","a","l","s","e">>

(***************************************************************************)
(* KgtkValueOptions.                                                       *)
(***************************************************************************)
DEFAULT_ADDITIONAL_LANGUAGE_CODES == << <<"m","o">> >>

KgtkValueOptions(mdz, lax, laxlq, addl, codes) ==
    [allow_month_or_day_zero |-> mdz,
     allow_lax_strings |-> lax,
     allow_lax_lq_strings |-> laxlq,
     allow_additional_language_codes |-> addl,
     additional_language_codes |-> codes]

DEFAULT_KGTK_VALUE_OPTIONS ==
    KgtkValueOptions(FALSE, FALSE, FALSE, FALSE, DEFAULT_ADDITIONAL_LANGUAGE_CODES)

(***************************************************************************)
(* KgtkValue: construction, the list split and its cache.                  *)
(***************************************************************************)
KgtkValue(v, o) == [value |-> v, options |-> o, values |-> None]

\* Mutant: the pattern without the look-behind for a backslash.
split_list_re_no_lookbehind(s, i) == s[i] = LIST_SEPARATOR

\* split_list_re matches at position i: a separator not preceded by a
\* backslash.
split_list_re(s, i) ==
    /\ s[i] = LIST_SEPARATOR
    /\ ~(i > 1 /\ s[i - 1] = Backslash)

\* split_list_re.split(s): scan left to right, cutting at every match.
RECURSIVE re_split(_, _, _)
re_split(s, start, i) ==
    IF i > Len(s) THEN << SubSeq(s, start, Len(s)) >>
    ELSE IF split_list_re(s, i)
         THEN << SubSeq(s, start, i - 1) >> \o re_split(s, i + 1, i + 1)
         ELSE re_split(s, start, i + 1)

\* The value of self.values after get_list has run.
get_list_values(self) ==
    IF self.values = None THEN << re_split(self.value, 1, 1) >> ELSE self.values

get_list(self) == get_list_values(self)[1]

\* get_list()[idx] raises IndexError when idx is out of range.
get_item_raises(self, idx) ==
    /\ idx # None
    /\ ~(idx[1] >= -Len(get_list(self)) /\ idx[1] < Len(get_list(self)))

get_item(self, idx) ==
    IF idx = None THEN self.value
    ELSE IF idx[1] >= 0 THEN get_list(self)[idx[1] + 1]
         ELSE get_list(self)[Len(get_list(self)) + idx[1] + 1]

is_list(self) == Len(get_list(self)) > 1

\* "if not self.is_list" tests the bound method, which is always true, so
\* the loop over get_list() always runs.
get_values(self) ==
    [i \in 1..Len(get_list(self)) |-> KgtkValue(get_list(self)[i], self.options)]

startswith(v, C) == Len(v) > 0 /\ v[1] \in C

is_empty(self, idx) ==
    IF is_list(self) /\ idx = None THEN FALSE
    ELSE Len(get_item(self, idx)) = 0


(***************************************************************************)
(* The number and quantity grammar.                                        *)
(***************************************************************************)
NumberStart == Digits \cup {"+", "-", "."}

is_number_or_quantity(self, idx) ==
    IF is_list(self) /\ idx = None THEN FALSE
    ELSE startswith(get_item(self, idx), NumberStart)

long_suffix_pat == Ch({"l", "L"})
plus_or_minus_pat == Ch({"-", "+"})
digit_pat == Ch(Digits)

\* (?:{digit}(?:_?{digit})*{long_suffix}?)
decinteger_pat ==
    Cat(<<digit_pat, Star(Cat(<<Opt(Lit(<<"_">>)), digit_pat>>)),
          Opt(long_suffix_pat)>>)

bindigit_pat == Ch({"0", "1"})
\* (?:0[bB](":_?{bindigit})+{long_suffix}): the group opens with the two
\* literal characters '":', and the long suffix is not optional.
bininteger_pat ==
    Cat(<<Lit(<<"0">>), Ch({"b", "B"}),
          Plus(Cat(<<Lit(<<"\"", ":">>), Opt(Lit(<<"_">>)), bindigit_pat>>)),
          long_suffix_pat>>)

octdigit_pat == Ch({"0", "1", "2", "3", "4", "5", "6", "7"})
octinteger_pat ==
    Cat(<<Lit(<<"0">>), Ch({"o", "O"}),
          Plus(Cat(<<Lit(<<"\"", ":">>), Opt(Lit(<<"_">>)), octdigit_pat>>)),
          long_suffix_pat>>)

\* [0-7a-fA-F]
hexdigit_pat ==
    Ch({"0", "1", "2", "3", "4", "5", "6", "7",
        "a", "b", "c", "d", "e", "f", "A", "B", "C", "D", "E", "F"})
hexinteger_pat ==
    Cat(<<Lit(<<"0">>), Ch({"x", "X"}),
          Plus(Cat(<<Lit(<<"\"", ":">>), Opt(Lit(<<"_">>)), hexdigit_pat>>)),
          long_suffix_pat>>)

integer_pat ==
    Alt(<<decinteger_pat, bininteger_pat, octinteger_pat, hexinteger_pat>>)

\* (?:{digit}(?:_?{digit})*)
digitpart_pat == Cat(<<digit_pat, Star(Cat(<<Opt(Lit(<<"_">>)), digit_pat>>))>>)
fraction_pat == Cat(<<Lit(<<".">>), digitpart_pat>>)
\* (?:{digitpart}?{fraction})|(?:{digitpart}\.)
pointfloat_pat ==
    Alt(<<Cat(<<Opt(digitpart_pat), fraction_pat>>),
          Cat(<<digitpart_pat, Lit(<<".">>)>>)>>)
exponent_pat == Cat(<<Ch({"e", "E"}), Opt(plus_or_minus_pat), digitpart_pat>>)
exponentfloat_pat == Cat(<<Alt(<<digitpart_pat, pointfloat_pat>>), exponent_pat>>)
floatnumber_pat == Alt(<<pointfloat_pat, exponentfloat_pat>>)

imagnumber_pat == Cat(<<Alt(<<floatnumber_pat, digitpart_pat>>), Ch({"j", "J"})>>)

numeric_pat ==
    Cat(<<Opt(plus_or_minus_pat),
          Alt(<<integer_pat, floatnumber_pat, imagnumber_pat>>)>>)

\* (?:\[{numeric},{numeric}\])
tolerance_pat ==
    Cat(<<Lit(<<"[">>), numeric_pat, Lit(<<",">>), numeric_pat, Lit(<<"]">>)>>)

\* (?:m|kg|s|C|K|mol|cd|F|M|A|N|ohms|V|J|Hz|lx|H|Wb|V\W|Pa)
si_unit_pat ==
    Alt(<<Lit(<<"m">>), Lit(<<"k","g">>), Lit(<<"s">>), Lit(<<"C">>),
          Lit(<<"K">>), Lit(<<"m","o","l">>), Lit(<<"c","d">>), Lit(<<"F">>),
          Lit(<<"M">>), Lit(<<"A">>), Lit(<<"N">>), Lit(<<"o","h","m","s">>),
          Lit(<<"V">>), Lit(<<"J">>), Lit(<<"H","z">>), Lit(<<"l","x">>),
          Lit(<<"H">>), Lit(<<"W","b">>),
          Cat(<<Lit(<<"V">>), NotCh(WordChars)>>), Lit(<<"P","a">>)>>)
si_power_pat == Alt(<<Lit(<<"-","1">>), Lit(<<"2">>), Lit(<<"3">>)>>)
si_combiner_pat == Ch({".", "/"})
\* (?:{si_unit}{si_power}?(?:{si_combiner}{si_unit}{si_power}?)*)
si_pat ==
    Cat(<<si_unit_pat, Opt(si_power_pat),
          Star(Cat(<<si_combiner_pat, si_unit_pat, Opt(si_power_pat)>>))>>)

nonzero_digit_pat == Ch(Digits \ {"0"})
wikidata_node_pat == Cat(<<Lit(<<"Q">>), nonzero_digit_pat, Star(digit_pat)>>)

units_pat == Alt(<<si_pat, wikidata_node_pat>>)

\* {numeric}{tolerance}?{units}?
number_or_quantity_pat == Cat(<<numeric_pat, Opt(tolerance_pat), Opt(units_pat)>>)
\* {numeric}(?:(?:{tolerance}{units}?)|{units})
quantity_pat ==
    Cat(<<numeric_pat,
          Alt(<<Cat(<<tolerance_pat, Opt(units_pat)>>), units_pat>>)>>)

number_or_quantity_re(v) == Matches(number_or_quantity_pat, v)
number_re(v) == Matches(numeric_pat, v)
quantity_re(v) == Matches(quantity_pat, v)

is_valid_number_or_quantity(self, idx) ==
    IF is_list(self) /\ idx = None THEN FALSE
    ELSE IF ~startswith(get_item(self, idx), NumberStart) THEN FALSE
    ELSE number_or_quantity_re(get_item(self, idx))

is_valid_number(self, idx) ==
    IF is_list(self) /\ idx = None THEN FALSE
    ELSE IF ~startswith(get_item(self, idx), NumberStart) THEN FALSE
    ELSE number_re(get_item(self, idx))

is_valid_quantity(self, idx) ==
    IF is_list(self) /\ idx = None THEN FALSE
    ELSE IF ~startswith(get_item(self, idx), NumberStart) THEN FALSE
    ELSE quantity_re(get_item(self, idx))

(***************************************************************************)
(* Strings.                                                                *)
(***************************************************************************)
is_string(self, idx) ==
    IF is_list(self) /\ idx = None THEN FALSE
    ELSE startswith(get_item(self, idx), {"\""})

\* ^".*"$
lax_string_re(v) == Matches(Cat(<<Lit(<<"\"">>), Star(Dot), Lit(<<"\"">>)>>), v)

\* Mutant: the class [^"] in place of [^"\\], which lets a backslash stand
\* alone.
strict_string_re_backslash_in_class(v) ==
    Matches(Cat(<<Lit(<<"\"">>),
                  Star(Alt(<<NotCh({"\""}), Cat(<<Lit(<<Backslash>>), Dot>>)>>)),
                  Lit(<<"\"">>)>>), v)

\* ^"(?:[^"\\]|\\.)*"$
strict_string_re(v) ==
    Matches(Cat(<<Lit(<<"\"">>),
                  Star(Alt(<<NotCh({"\"", Backslash}),
                             Cat(<<Lit(<<Backslash>>), Dot>>)>>)),
                  Lit(<<"\"">>)>>), v)

is_valid_string(self, idx) ==
    IF is_list(self) /\ idx = None THEN FALSE
    ELSE IF ~startswith(get_item(self, idx), {"\""}) THEN FALSE
    ELSE IF self.options.allow_lax_strings
         THEN lax_string_re(get_item(self, idx))
         ELSE strict_string_re(get_item(self, idx))

\* Mutant: the extension sigil is missing from the structured literals.
is_structured_literal_no_bang(self, idx) ==
    IF is_list(self) /\ idx = None THEN FALSE
    ELSE startswith(get_item(self, idx), {"^", "@", "'"})

is_structured_literal(self, idx) ==
    IF is_list(self) /\ idx = None THEN FALSE
    ELSE startswith(get_item(self, idx), {"^", "@", "'", "!"})

\* Mutant: is_symbol without the guard for a list queried without an index.
is_symbol_unguarded(self, idx) ==
    ~(is_number_or_quantity(self, idx) \/ is_string(self, idx)
         \/ is_structured_literal(self, idx))

is_symbol(self, idx) ==
    IF is_list(self) /\ idx = None THEN FALSE
    ELSE ~(is_number_or_quantity(self, idx) \/ is_string(self, idx)
              \/ is_structured_literal(self, idx))

is_boolean(self, idx) ==
    IF is_list(self) /\ idx = None THEN FALSE
    ELSE get_item(self, idx) = TRUE_SYMBOL \/ get_item(self, idx) = FALSE_SYMBOL


(***************************************************************************)
(* Language-qualified strings.                                             *)
(***************************************************************************)
is_language_qualified_string(self, idx) ==
    IF is_list(self) /\ idx = None THEN FALSE
    ELSE startswith(get_item(self, idx), {"'"})

\* (?P<lang>[a-zA-Z]{2,3}(?:-[a-zA-Z]+)?)
lang_pat ==
    Cat(<<Ch(Letters), Ch(Letters), Opt(Ch(Letters)),
          Opt(Cat(<<Lit(<<"-">>), Plus(Ch(Letters))>>))>>)

\* (?P<string>'.*')@
lax_lq_string_pat == Cat(<<Lit(<<"'">>), Star(Dot), Lit(<<"'">>), Lit(<<"@">>)>>)
\* (?P<string>'(?:[^'\\]|\\.)*')@
strict_lq_string_pat ==
    Cat(<<Lit(<<"'">>),
          Star(Alt(<<NotCh({"'", Backslash}), Cat(<<Lit(<<Backslash>>), Dot>>)>>)),
          Lit(<<"'">>), Lit(<<"@">>)>>)

\* The values m.group("lang") can take for a match of the whole item, where
\* string_pat is the pattern up to the tag: the empty set when there is no
\* match.  The tag holds no quote and no '@', so a match determines it.
lang_groups(v, string_pat) ==
    UNION {{SubSeq(v, p, j - 1) : j \in {k \in Ends(lang_pat, v, p) : AtEnd(v, k)}} :
              p \in Ends(string_pat, v, 1)}
lax_language_qualified_string_re(v) == lang_groups(v, lax_lq_string_pat)
strict_language_qualified_string_re(v) == lang_groups(v, strict_lq_string_pat)

\* The language registries of pycountry and iso639, cut down to the tags
\* the model can write.
Alpha2 == {<<"o","m">>}
Alpha3 == {<<"m","o","m">>}
Part5 == {<<"m","n","o">>}
pycountry_alpha_2(lang) == lang \in Alpha2
pycountry_alpha_3(lang) == lang \in Alpha3
iso639_part5(lang) == lang \in Part5

\* lang.split("-", 1)[0]
RECURSIVE before_dash(_)
before_dash(lang) ==
    IF lang = <<>> \/ Head(lang) = "-" THEN <<>>
    ELSE <<Head(lang)>> \o before_dash(Tail(lang))

\* Mutant: the additional codes are looked up with the whole tag, not with
\* the part before the dash.
validate_language_code_whole_tag(lang, o) ==
    LET first == IF Len(lang) = 2 THEN pycountry_alpha_2(lang)
                 ELSE IF Len(lang) = 3
                      THEN pycountry_alpha_3(lang) \/ iso639_part5(lang)
                      ELSE FALSE
        dashed == "-" \in Range(lang)
        lang2 == IF dashed THEN before_dash(lang) ELSE lang
        second == /\ dashed
                  /\ \/ (Len(lang2) = 2 /\ pycountry_alpha_2(lang2))
                     \/ (Len(lang2) = 3 /\ pycountry_alpha_3(lang2))
                     \/ iso639_part5(lang2)
    IN  \/ first
        \/ second
        \/ /\ o.allow_additional_language_codes
           /\ lang \in Range(o.additional_language_codes)

\* Lines 465-519: the cascade on the lowercased tag.
validate_language_code(lang, o) ==
    LET first == IF Len(lang) = 2 THEN pycountry_alpha_2(lang)
                 ELSE IF Len(lang) = 3
                      THEN pycountry_alpha_3(lang) \/ iso639_part5(lang)
                      ELSE FALSE
        dashed == "-" \in Range(lang)
        lang2 == IF dashed THEN before_dash(lang) ELSE lang
        second == /\ dashed
                  /\ \/ (Len(lang2) = 2 /\ pycountry_alpha_2(lang2))
                     \/ (Len(lang2) = 3 /\ pycountry_alpha_3(lang2))
                     \/ iso639_part5(lang2)
    IN  \/ first
        \/ second
        \/ /\ o.allow_additional_language_codes
           /\ lang2 \in Range(o.additional_language_codes)

is_valid_language_qualified_string(self, idx) ==
    IF is_list(self) /\ idx = None THEN FALSE
    ELSE LET v == get_item(self, idx)
             m == IF self.options.allow_lax_lq_strings
                  THEN lax_language_qualified_string_re(v)
                  ELSE strict_language_qualified_string_re(v)
         IN  \E g \in m : validate_language_code(lower(g), self.options)

(***************************************************************************)
(* Location coordinates.                                                   *)
(***************************************************************************)
is_location_coordinates(self, idx) ==
    IF is_list(self) /\ idx = None THEN FALSE
    ELSE startswith(get_item(self, idx), {"@"})

\* [-+]?(?:\d+(?:\.\d*)?)|(?:\.\d+): the sign belongs to the first
\* alternative only.
coordinate_pat ==
    Alt(<<Cat(<<Opt(plus_or_minus_pat), Plus(digit_pat),
                Opt(Cat(<<Lit(<<".">>), Star(digit_pat)>>))>>),
          Cat(<<Lit(<<".">>), Plus(digit_pat)>>)>>)

\* The pairs <<m.group("lat"), m.group("lon")>> of a match of the whole
\* item: a coordinate holds no '/', so a match determines them.
location_coordinates_re(v) ==
    UNION {{<<SubSeq(v, 2, p - 1), SubSeq(v, p + 1, j - 1)>> :
                j \in {k \in Ends(Cat(<<Lit(<<"/">>), coordinate_pat>>), v, p) :
                          AtEnd(v, k)}} :
              p \in Ends(Cat(<<Lit(<<"@">>), coordinate_pat>>), v, 1)}

DigitSeq == <<"0","1","2","3","4","5","6","7","8","9">>
digit_value(c) == (CHOOSE i \in DOMAIN DigitSeq : DigitSeq[i] = c) - 1

\* float(str) of a matched coordinate, as sign, integer part and whether
\* the fraction is non-zero.  The rounding of a fraction longer than a
\* double holds is not modelled.
RECURSIVE int_value(_, _)
int_value(ds, acc) ==
    IF ds = <<>> \/ Head(ds) \notin Digits THEN acc
    ELSE int_value(Tail(ds), 10 * acc + digit_value(Head(ds)))
float(str) ==
    LET neg == Len(str) > 0 /\ str[1] = "-"
        body == IF Len(str) > 0 /\ str[1] \in {"-", "+"} THEN Tail(str) ELSE str
        dot == {i \in 1..Len(body) : body[i] = "."}
        frac == IF dot = {} THEN <<>>
                ELSE SubSeq(body, (CHOOSE i \in dot : TRUE) + 1, Len(body))
    IN  [neg |-> neg,
         int |-> int_value(body, 0),
         fracnz |-> \E i \in 1..Len(frac) : frac[i] # "0"]
\* x > bound and x < -bound, for a whole number bound.
float_gt(x, bound) ==
    ~x.neg /\ (x.int > bound \/ (x.int = bound /\ x.fracnz))
float_lt_minus(x, bound) ==
    x.neg /\ (x.int > bound \/ (x.int = bound /\ x.fracnz))

is_valid_location_coordinates(self, idx) ==
    IF is_list(self) /\ idx = None THEN FALSE
    ELSE \E m \in location_coordinates_re(get_item(self, idx)) :
            /\ ~(float_lt_minus(float(m[1]), 90) \/ float_gt(float(m[1]), 90))
            /\ ~(float_lt_minus(float(m[2]), 180) \/ float_gt(float(m[2]), 180))


(***************************************************************************)
(* Date and times.                                                         *)
(***************************************************************************)
is_date_and_times(self, idx) ==
    IF is_list(self) /\ idx = None THEN FALSE
    ELSE startswith(get_item(self, idx), {"^"})

\* (?P<year>[0-9]{4})
year_pat == Cat(<<digit_pat, digit_pat, digit_pat, digit_pat>>)
\* (?P<month>1[0-2]|0[0-9]) and (?P<month>1[0-2]|0[1-9])
lax_month_pat ==
    Alt(<<Cat(<<Lit(<<"1">>), Ch({"0", "1", "2"})>>), Cat(<<Lit(<<"0">>), digit_pat>>)>>)
strict_month_pat ==
    Alt(<<Cat(<<Lit(<<"1">>), Ch({"0", "1", "2"})>>),
          Cat(<<Lit(<<"0">>), nonzero_digit_pat>>)>>)
\* (?P<day>3[01]|0[0-9]|[12][0-9]) and (?P<day>3[01]|0[1-9]|[12][0-9])
lax_day_pat ==
    Alt(<<Cat(<<Lit(<<"3">>), Ch({"0", "1"})>>), Cat(<<Lit(<<"0">>), digit_pat>>),
          Cat(<<Ch({"1", "2"}), digit_pat>>)>>)
strict_day_pat ==
    Alt(<<Cat(<<Lit(<<"3">>), Ch({"0", "1"})>>),
          Cat(<<Lit(<<"0">>), nonzero_digit_pat>>),
          Cat(<<Ch({"1", "2"}), digit_pat>>)>>)
\* (?P<hour>2[0-3]|[01][0-9])
hour_pat ==
    Alt(<<Cat(<<Lit(<<"2">>), Ch({"0", "1", "2", "3"})>>),
          Cat(<<Ch({"0", "1"}), digit_pat>>)>>)
\* (?P<minute>[0-5][0-9]) and (?P<second>[0-5][0-9])
minute_pat == Cat(<<Ch({"0", "1", "2", "3", "4", "5"}), digit_pat>>)
second_pat == minute_pat
\* (?P<zone>Z|\[-+][0-9][0-9](?::[0-9][0-9])?): '\[' is a literal bracket,
\* '-+' is one or more hyphens and ']' a literal bracket.
zone_pat ==
    Alt(<<Lit(<<"Z">>),
          Cat(<<Lit(<<"[">>), Plus(Lit(<<"-">>)), Lit(<<"]">>), digit_pat, digit_pat,
                Opt(Cat(<<Lit(<<":">>), digit_pat, digit_pat>>))>>)>>)
\* (?P<precision>/[0-1]?[0-9])
precision_pat == Cat(<<Lit(<<"/">>), Opt(Ch({"0", "1"})), digit_pat>>)

\* Mutant: every separator is optional on its own, whatever the group
\* (?P<hyphen>-) did.
if_hyphen_unconditional(hyphen, x) == Opt(Lit(<<x>>))

\* (?(hyphen)X): X when the group (?P<hyphen>-) took part in the match,
\* nothing otherwise.
if_hyphen(hyphen, x) == IF hyphen THEN Lit(<<x>>) ELSE Lit(<<>>)

\* A date pattern for one outcome of the optional group (?P<hyphen>-)?.
\* Month, day, minute and second are not optional in the pattern.
date_and_times_body(hyphen, month_pat, day_pat) ==
    Cat(<<Lit(<<"^">>), year_pat,
          if_hyphen(hyphen, "-"), month_pat,
          if_hyphen(hyphen, "-"), day_pat,
          Lit(<<"T">>), hour_pat,
          if_hyphen(hyphen, ":"), minute_pat,
          if_hyphen(hyphen, ":"), second_pat,
          Opt(zone_pat), Opt(precision_pat)>>)

date_and_times_pat(month_pat, day_pat) ==
    Alt(<<date_and_times_body(TRUE, month_pat, day_pat),
          date_and_times_body(FALSE, month_pat, day_pat)>>)

lax_date_and_times_re(v) ==
    Matches(date_and_times_pat(lax_month_pat, lax_day_pat), v)
strict_date_and_times_re(v) ==
    Matches(date_and_times_pat(strict_month_pat, strict_day_pat), v)

\* Mutant: allow_month_or_day_zero is not read, the strict pattern is always
\* used.
is_valid_date_and_times_always_strict(self, idx) ==
    IF is_list(self) /\ idx = None THEN FALSE
    ELSE strict_date_and_times_re(get_item(self, idx))

is_valid_date_and_times(self, idx) ==
    IF is_list(self) /\ idx = None THEN FALSE
    ELSE IF self.options.allow_month_or_day_zero
         THEN lax_date_and_times_re(get_item(self, idx))
         ELSE strict_date_and_times_re(get_item(self, idx))

(***************************************************************************)
(* Extensions, literals, items, cells.                                     *)
(***************************************************************************)
is_extension(self, idx) ==
    IF is_list(self) /\ idx = None THEN FALSE
    ELSE startswith(get_item(self, idx), {"!"})

\* Mutant: an extension counts as a valid literal.
is_valid_literal_with_extensions(self, idx) ==
    IF is_list(self) /\ idx = None THEN FALSE
    ELSE IF is_string(self, idx) THEN is_valid_string(self, idx)
    ELSE IF is_number_or_quantity(self, idx)
         THEN is_valid_number_or_quantity(self, idx)
    ELSE IF is_structured_literal(self, idx)
         THEN IF is_language_qualified_string(self, idx)
              THEN is_valid_language_qualified_string(self, idx)
              ELSE IF is_location_coordinates(self, idx)
              THEN is_valid_location_coordinates(self, idx)
              ELSE IF is_date_and_times(self, idx)
              THEN is_valid_date_and_times(self, idx)
              ELSE is_extension(self, idx)
    ELSE FALSE

is_valid_literal(self, idx) ==
    IF is_list(self) /\ idx = None THEN FALSE
    ELSE IF is_string(self, idx) THEN is_valid_string(self, idx)
    ELSE IF is_number_or_quantity(self, idx)
         THEN is_valid_number_or_quantity(self, idx)
    ELSE IF is_structured_literal(self, idx)
         THEN IF is_language_qualified_string(self, idx)
              THEN is_valid_language_qualified_string(self, idx)
              ELSE IF is_location_coordinates(self, idx)
              THEN is_valid_location_coordinates(self, idx)
              ELSE IF is_date_and_times(self, idx)
              THEN is_valid_date_and_times(self, idx)
              ELSE FALSE
    ELSE FALSE

is_valid_item(self, idx) ==
    IF is_list(self) /\ idx = None THEN FALSE
    ELSE IF is_empty(self, idx) THEN TRUE
    ELSE IF is_valid_literal(self, idx) THEN TRUE
    ELSE is_symbol(self, idx)

\* Mutant: the loop of is_valid overwrites result instead of and-ing it.
RECURSIVE is_valid_loop_last(_, _, _)
is_valid_loop_last(kvs, i, result) ==
    IF i > Len(kvs) THEN result
    ELSE is_valid_loop_last(kvs, i + 1, is_valid_item(kvs[i], None))

\* The loop of is_valid over get_values(), from the i-th wrapper on.
RECURSIVE is_valid_loop(_, _, _)
is_valid_loop(kvs, i, result) ==
    IF i > Len(kvs) THEN result
    ELSE is_valid_loop(kvs, i + 1, result /\ is_valid_item(kvs[i], None))

is_valid(self) == is_valid_loop(get_values(self), 1, TRUE)

\* The label describe returns for one item; a str is a sequence of
\* characters, and a label is written as one element of it.
describe_item(self, idx) ==
    IF is_empty(self, idx) THEN <<"Empty">>
    ELSE IF is_string(self, idx)
         THEN IF is_valid_string(self, idx) THEN <<"String">>
              ELSE <<"Invalid String">>
    ELSE IF is_number_or_quantity(self, idx)
         THEN IF is_valid_number(self, idx) THEN <<"Number">>
              ELSE IF is_valid_quantity(self, idx) THEN <<"Quantity">>
              ELSE <<"Invalid Number or Quantity">>
    ELSE IF is_structured_literal(self, idx)
         THEN IF is_language_qualified_string(self, idx)
              THEN IF is_valid_language_qualified_string(self, idx)
                   THEN <<"Language Qualified String">>
                   ELSE <<"Invalid Language Qualified String">>
              ELSE IF is_location_coordinates(self, idx)
              THEN IF is_valid_location_coordinates(self, idx)
                   THEN <<"Location Coordinates">>
                   ELSE <<"Invalid Location Coordinates">>
              ELSE IF is_date_and_times(self, idx)
              THEN IF is_valid_date_and_times(self, idx)
                   THEN <<"Date and Times">>
                   ELSE <<"Invalid Date and Times">>
              ELSE IF is_extension(self, idx)
              THEN <<"Extension (unvalidated)">>
              ELSE <<"Invalid Structured Literal">>
    ELSE <<"Symbol">>

\* describe: the loop over get_values() for a list queried without an
\* index, the label of the item otherwise.
RECURSIVE describe(_, _)
RECURSIVE describe_loop(_, _, _, _)
\* Mutant: the loop of describe never clears first, so no separator is added.
RECURSIVE describe_loop_no_separator(_, _, _, _)
describe_loop_no_separator(kvs, i, first, result) ==
    IF i > Len(kvs) THEN result
    ELSE describe_loop_no_separator(kvs, i + 1, first,
                                    (IF first THEN result
                                     ELSE result \o <<LIST_SEPARATOR>>)
                                        \o describe(kvs[i], None))

describe_loop(kvs, i, first, result) ==
    IF i > Len(kvs) THEN result
    ELSE describe_loop(kvs, i + 1, FALSE,
                       (IF first THEN result ELSE result \o <<LIST_SEPARATOR>>)
                           \o describe(kvs[i], None))
describe(self, idx) ==
    IF is_list(self) /\ idx = None
    THEN describe_loop(get_values(self), 1, TRUE, <<>>)
    ELSE describe_item(self, idx)


(***************************************************************************)
(* The state: one KgtkValue object and the outcome of the last call.       *)
(***************************************************************************)
VARIABLES value, options, values, ret, threads

vars == <<value, options, values, ret, threads>>

self == [value |-> value, options |-> options, values |-> values]

\* The index arguments the calls are made with.
Indexes == {None} \cup {<<n>> : n \in (-MaxIdx)..MaxIdx}

Flags == {KgtkValueOptions(mdz, lax, laxlq, addl, DEFAULT_ADDITIONAL_LANGUAGE_CODES) :
            <<mdz, lax, laxlq, addl>> \in BOOLEAN \X BOOLEAN \X BOOLEAN \X BOOLEAN}

\* No call of get_list is under way in another thread.
NoThreads == <<>>

NoCall == [op |-> "new", idx |-> None, exc |-> "", b |-> FALSE, s |-> <<>>]

\* A call of a predicate with idx: is_list() fills the cache, then
\* get_item(idx) raises IndexError or the predicate returns b.  Calls are
\* made one after the other: the caller takes the outcome of a call before
\* it makes the next one.
Predicate(op, idx, b) ==
    /\ ret = NoCall
    /\ ret' = IF get_item_raises(self, idx)
              THEN [op |-> op, idx |-> idx, exc |-> "IndexError", b |-> FALSE, s |-> <<>>]
              ELSE [op |-> op, idx |-> idx, exc |-> "", b |-> b, s |-> <<>>]
    /\ values' = get_list_values(self)
    /\ UNCHANGED <<value, options, threads>>

GetList ==
    /\ ret = NoCall
    /\ ret' = [op |-> "get_list", idx |-> None, exc |-> "", b |-> FALSE,
               s |-> get_list(self)]
    /\ values' = get_list_values(self)
    /\ UNCHANGED <<value, options, threads>>

GetItem ==
    \E idx \in Indexes :
        /\ ret = NoCall
        /\ ret' = IF get_item_raises(self, idx)
                  THEN [op |-> "get_item", idx |-> idx, exc |-> "IndexError",
                        b |-> FALSE, s |-> <<>>]
                  ELSE [op |-> "get_item", idx |-> idx, exc |-> "", b |-> FALSE,
                        s |-> get_item(self, idx)]
        /\ values' = IF idx = None THEN values ELSE get_list_values(self)
        /\ UNCHANGED <<value, options, threads>>

IsList == Predicate("is_list", None, is_list(self))

GetValues ==
    /\ ret = NoCall
    /\ ret' = [op |-> "get_values", idx |-> None, exc |-> "", b |-> FALSE,
               s |-> [i \in DOMAIN get_values(self) |-> get_values(self)[i].value]]
    /\ values' = get_list_values(self)
    /\ UNCHANGED <<value, options, threads>>

IsEmpty == \E idx \in Indexes : Predicate("is_empty", idx, is_empty(self, idx))
IsNumberOrQuantity ==
    \E idx \in Indexes :
        Predicate("is_number_or_quantity", idx, is_number_or_quantity(self, idx))
IsValidNumberOrQuantity ==
    \E idx \in Indexes :
        Predicate("is_valid_number_or_quantity", idx,
                  is_valid_number_or_quantity(self, idx))
IsValidNumber ==
    \E idx \in Indexes : Predicate("is_valid_number", idx, is_valid_number(self, idx))
IsValidQuantity ==
    \E idx \in Indexes :
        Predicate("is_valid_quantity", idx, is_valid_quantity(self, idx))
IsString == \E idx \in Indexes : Predicate("is_string", idx, is_string(self, idx))
IsValidString ==
    \E idx \in Indexes : Predicate("is_valid_string", idx, is_valid_string(self, idx))
IsStructuredLiteral ==
    \E idx \in Indexes :
        Predicate("is_structured_literal", idx, is_structured_literal(self, idx))
IsSymbol == \E idx \in Indexes : Predicate("is_symbol", idx, is_symbol(self, idx))
IsBoolean == \E idx \in Indexes : Predicate("is_boolean", idx, is_boolean(self, idx))
IsLanguageQualifiedString ==
    \E idx \in Indexes :
        Predicate("is_language_qualified_string", idx,
                  is_language_qualified_string(self, idx))
IsValidLanguageQualifiedString ==
    \E idx \in Indexes :
        Predicate("is_valid_language_qualified_string", idx,
                  is_valid_language_qualified_string(self, idx))
IsLocationCoordinates ==
    \E idx \in Indexes :
        Predicate("is_location_coordinates", idx, is_location_coordinates(self, idx))
IsValidLocationCoordinates ==
    \E idx \in Indexes :
        Predicate("is_valid_location_coordinates", idx,
                  is_valid_location_coordinates(self, idx))
IsDateAndTimes ==
    \E idx \in Indexes :
        Predicate("is_date_and_times", idx, is_date_and_times(self, idx))
IsValidDateAndTimes ==
    \E idx \in Indexes :
        Predicate("is_valid_date_and_times", idx, is_valid_date_and_times(self, idx))
IsExtension ==
    \E idx \in Indexes : Predicate("is_extension", idx, is_extension(self, idx))
IsValidLiteral ==
    \E idx \in Indexes :
        Predicate("is_valid_literal", idx, is_valid_literal(self, idx))
IsValidItem ==
    \E idx \in Indexes : Predicate("is_valid_item", idx, is_valid_item(self, idx))

IsValid == Predicate("is_valid", None, is_valid(self))

Describe ==
    \E idx \in Indexes :
        /\ ret = NoCall
        /\ ret' = IF get_item_raises(self, idx)
                  THEN [op |-> "describe", idx |-> idx, exc |-> "IndexError",
                        b |-> FALSE, s |-> <<>>]
                  ELSE [op |-> "describe", idx |-> idx, exc |-> "", b |-> FALSE,
                        s |-> describe(self, idx)]
        /\ values' = get_list_values(self)
        /\ UNCHANGED <<value, options, threads>>

\* The caller takes the outcome of the call (main prints it) and goes on.
Drop ==
    /\ ret # NoCall
    /\ ret' = NoCall
    /\ UNCHANGED <<value, options, values, threads>>

Next ==
    \/ GetList
    \/ GetItem
    \/ IsList
    \/ GetValues
    \/ IsEmpty
    \/ IsNumberOrQuantity
    \/ IsValidNumberOrQuantity
    \/ IsValidNumber
    \/ IsValidQuantity
    \/ IsString
    \/ IsValidString
    \/ IsStructuredLiteral
    \/ IsSymbol
    \/ IsBoolean
    \/ IsLanguageQualifiedString
    \/ IsValidLanguageQualifiedString
    \/ IsLocationCoordinates
    \/ IsValidLocationCoordinates
    \/ IsDateAndTimes
    \/ IsValidDateAndTimes
    \/ IsExtension
    \/ IsValidLiteral
    \/ IsValidItem
    \/ IsValid
    \/ Describe
    \/ Drop

\* Cells written over the separator, the backslash and one other character.
ListChars == {"a", LIST_SEPARATOR, Backslash}
InitList ==
    /\ value \in StringsUpTo(ListChars, MaxListLen)
    /\ options = DEFAULT_KGTK_VALUE_OPTIONS
    /\ values = None
    /\ ret = NoCall
    /\ threads = NoThreads

SpecList == InitList /\ [][Next]_vars


(***************************************************************************)
(* Cells made of one to MaxItems items of every category, under every      *)
(* combination of the four flags.                                          *)
(***************************************************************************)
ItemPool ==
    { <<>>,
      <<"\"","a","\"","b","\"">>,
      <<"1">>,
      <<"1","x">>,
      <<"'","a","'","@","m","o">>,
      <<"@","1","/","1">>,
      <<"^","1","9","6","0","-","0","0","-","0","0","T","0","0",":","0","0",":","0","0">>,
      <<"!","x">>,
      <<"a">> }

\* The items joined by the separator.
RECURSIVE JoinItems(_)
JoinItems(items) ==
    IF Len(items) = 1 THEN items[1]
    ELSE items[1] \o <<LIST_SEPARATOR>> \o JoinItems(Tail(items))

Cells == {JoinItems(items) : items \in UNION {[1..k -> ItemPool] : k \in 1..MaxItems}}

Init ==
    /\ value \in Cells
    /\ options \in Flags
    /\ values = None
    /\ ret = NoCall
    /\ threads = NoThreads

Spec == Init /\ [][Next]_vars

\* The split items of the cell of the state, each as a cell of its own.
ItemCells == [i \in 1..Len(re_split(value, 1, 1)) |->
                 KgtkValue(re_split(value, 1, 1)[i], options)]

TypeOK ==
    /\ values \in {None, << re_split(value, 1, 1) >>}
    /\ ret.exc \in {"", "IndexError"}
    /\ ret.b \in BOOLEAN

(***************************************************************************)
(* C1: is_valid(cell) is the conjunction of is_valid_item over the items   *)
(* of the split list, each taken as a single-item cell of its own; an      *)
(* empty item counts as valid, so the cell is valid iff every item is      *)
(* empty, a valid literal or a symbol.                                     *)
(***************************************************************************)
C1_IsValidIsConjunction ==
    ret.op = "is_valid" =>
        /\ ret.exc = ""
        /\ ret.b = \A i \in DOMAIN ItemCells : is_valid_item(ItemCells[i], None)
        /\ ret.b = \A i \in DOMAIN ItemCells :
                      \/ ItemCells[i].value = <<>>
                      \/ is_valid_literal(ItemCells[i], None)
                      \/ is_symbol(ItemCells[i], None)

\* is_valid returned False for a list that holds a valid and an invalid item.
C1_Witness ==
    /\ ret.op = "is_valid" /\ ~ret.b
    /\ Len(ItemCells) > 1
    /\ \E i \in DOMAIN ItemCells : is_valid_literal(ItemCells[i], None)
    /\ \E i \in DOMAIN ItemCells : ~is_valid_item(ItemCells[i], None)

(***************************************************************************)
(* C3: on a cell whose split list has more than one item, every per-item   *)
(* predicate called without an index returns False.                        *)
(***************************************************************************)
PerItemPredicates ==
    {"is_empty", "is_number_or_quantity", "is_valid_number_or_quantity",
     "is_valid_number", "is_valid_quantity", "is_string", "is_valid_string",
     "is_structured_literal", "is_symbol", "is_boolean",
     "is_language_qualified_string", "is_valid_language_qualified_string",
     "is_location_coordinates", "is_valid_location_coordinates",
     "is_date_and_times", "is_valid_date_and_times", "is_extension",
     "is_valid_literal", "is_valid_item"}

C3_ListWithoutIndexIsFalse ==
    (/\ ret.op \in PerItemPredicates
     /\ ret.idx = None
     /\ Len(ItemCells) > 1) => (ret.exc = "" /\ ret.b = FALSE)

\* is_symbol returned for a list of two symbols, queried without an index.
C3_Witness ==
    /\ ret.op = "is_symbol" /\ ret.idx = None /\ ret.exc = ""
    /\ Len(ItemCells) > 1
    /\ \A i \in DOMAIN ItemCells : is_symbol(ItemCells[i], None)

(***************************************************************************)
(* C5: describe of a multi-item cell is the describe results of its items, *)
(* each taken as a single-item cell of its own, in order, joined by the    *)
(* list separator.                                                         *)
(***************************************************************************)
RECURSIVE JoinDescriptions(_)
JoinDescriptions(ds) ==
    IF Len(ds) = 1 THEN ds[1]
    ELSE ds[1] \o <<LIST_SEPARATOR>> \o JoinDescriptions(Tail(ds))

C5_DescribeJoinsItems ==
    (/\ ret.op = "describe"
     /\ ret.idx = None
     /\ Len(ItemCells) > 1) =>
        /\ ret.exc = ""
        /\ ret.s = JoinDescriptions([i \in DOMAIN ItemCells |->
                                        describe(ItemCells[i], None)])
        /\ Len(ret.s) = 2 * Len(ItemCells) - 1

\* describe returned for a list of two items with different labels.
C5_Witness ==
    /\ ret.op = "describe" /\ ret.idx = None
    /\ Len(ItemCells) = 2
    /\ Len(ret.s) = 3 /\ ret.s[2] = LIST_SEPARATOR /\ ret.s[1] # ret.s[3]

(***************************************************************************)
(* C6: every predicate and describe is total: for every cell, options and  *)
(* index argument (None or an integer) the call returns and never raises.  *)
(***************************************************************************)
C6_NeverRaises == ret.exc = ""


(***************************************************************************)
(* Single items: every leading character the dispatch tells apart,         *)
(* followed by a short rest, under every combination of the four flags.    *)
(***************************************************************************)
DispatchChars ==
    Digits \cup {"+", "-", ".", "\"", "^", "@", "'", "!", "a", "Q", "_", Backslash}
RestChars == {"a", "1"}

InitDispatch ==
    /\ value \in {<<c>> \o r : c \in DispatchChars,
                              r \in StringsUpTo(RestChars, MaxRestLen)}
    /\ options \in Flags
    /\ values = None
    /\ ret = NoCall
    /\ threads = NoThreads

SpecDispatch == InitDispatch /\ [][Next]_vars

(***************************************************************************)
(* C2: coarse dispatch is total and mutually exclusive: for a non-empty    *)
(* single item exactly one of is_string, is_number_or_quantity,            *)
(* is_language_qualified_string, is_location_coordinates,                  *)
(* is_date_and_times, is_extension and is_symbol is true, and the first    *)
(* character alone decides which.                                          *)
(***************************************************************************)
CoarseOps ==
    {"is_string", "is_number_or_quantity", "is_language_qualified_string",
     "is_location_coordinates", "is_date_and_times", "is_extension", "is_symbol"}

\* The category the first character stands for.
CategoryOf(c) ==
    IF c = "\"" THEN "is_string"
    ELSE IF c \in Digits \cup {"+", "-", "."} THEN "is_number_or_quantity"
    ELSE IF c = "'" THEN "is_language_qualified_string"
    ELSE IF c = "@" THEN "is_location_coordinates"
    ELSE IF c = "^" THEN "is_date_and_times"
    ELSE IF c = "!" THEN "is_extension"
    ELSE "is_symbol"

\* The coarse predicates that hold of the cell of the state.
CoarseTrue ==
    {op \in CoarseOps :
        CASE op = "is_string" -> is_string(self, None)
          [] op = "is_number_or_quantity" -> is_number_or_quantity(self, None)
          [] op = "is_language_qualified_string" ->
                 is_language_qualified_string(self, None)
          [] op = "is_location_coordinates" -> is_location_coordinates(self, None)
          [] op = "is_date_and_times" -> is_date_and_times(self, None)
          [] op = "is_extension" -> is_extension(self, None)
          [] op = "is_symbol" -> is_symbol(self, None)}

C2_DispatchTotalAndExclusive ==
    (Len(ItemCells) = 1 /\ value # <<>>) =>
        /\ Cardinality(CoarseTrue) = 1
        /\ (ret.op \in CoarseOps /\ ret.exc = "") =>
               ret.b = (CategoryOf(value[1]) = ret.op)

\* is_symbol returned True for an item of several characters.
C2_Witness ==
    /\ ret.op = "is_symbol" /\ ret.idx = None /\ ret.b
    /\ Len(ItemCells) = 1 /\ Len(value) > 1

(***************************************************************************)
(* C4: get_list splits the cell text exactly at the separators that are    *)
(* not immediately preceded by a backslash: it returns the substrings      *)
(* between those positions in order, 1 + (number of such positions) items, *)
(* joining the items with the separator gives the cell text back, and      *)
(* is_list is true iff there is such a position.                           *)
(***************************************************************************)
SplitPoints ==
    {i \in 1..Len(value) :
        value[i] = "|" /\ (i = 1 \/ value[i - 1] # "\\")}

\* The k-th split point in increasing order; 0 before the first and
\* Len(value) + 1 after the last.
SplitPoint(k) ==
    IF k = 0 THEN 0
    ELSE IF k > Cardinality(SplitPoints) THEN Len(value) + 1
    ELSE CHOOSE i \in SplitPoints :
             Cardinality({j \in SplitPoints : j < i}) = k - 1

C4_GetListSplitsAtUnescapedSeparators ==
    /\ ret.op = "get_list" =>
          /\ Len(ret.s) = 1 + Cardinality(SplitPoints)
          /\ \A k \in 1..Len(ret.s) :
                 ret.s[k] = SubSeq(value, SplitPoint(k - 1) + 1, SplitPoint(k) - 1)
          /\ JoinItems(ret.s) = value
    /\ ret.op = "is_list" => ret.b = (SplitPoints # {})

\* get_list returned several items, one of them holding an escaped separator.
C4_Witness ==
    /\ ret.op = "get_list" /\ Len(ret.s) > 1
    /\ \E k \in 1..Len(ret.s) : \E i \in 2..Len(ret.s[k]) :
           ret.s[k][i] = "|" /\ ret.s[k][i - 1] = "\\"


(***************************************************************************)
(* Single items written over digits, base prefixes and suffix letters.     *)
(***************************************************************************)
NumChars == {"0", "1", "b", "x", "F", "J", "L", "+"}

InitNumber ==
    /\ value \in StringsUpTo(NumChars, MaxNumLen)
    /\ options = DEFAULT_KGTK_VALUE_OPTIONS
    /\ values = None
    /\ ret = NoCall
    /\ threads = NoThreads

SpecNumber == InitNumber /\ [][Next]_vars

(***************************************************************************)
(* C7: the Quantity grammar excludes plain numbers: no item is both a      *)
(* valid number and a valid quantity.                                      *)
(***************************************************************************)
C7_QuantityExcludesNumbers ==
    /\ (ret.op = "is_valid_quantity" /\ ret.exc = "" /\ ret.b) =>
           ~is_valid_number(self, ret.idx)
    /\ (ret.op = "is_valid_number" /\ ret.exc = "" /\ ret.b) =>
           ~is_valid_quantity(self, ret.idx)

(***************************************************************************)
(* C8: is_valid_number accepts prefixed binary, octal and hexadecimal      *)
(* integer literals: an optional sign, 0b/0B, 0o/0O or 0x/0X, one or more  *)
(* digits of that base, with or without the long-integer suffix letter.    *)
(***************************************************************************)
BinDigits == {"0", "1"}
OctDigits == {"0", "1", "2", "3", "4", "5", "6", "7"}
HexDigits == Digits \cup {"a", "b", "c", "d", "e", "f", "A", "B", "C", "D", "E", "F"}

\* v is sign? 0 prefix digit+ suffix? for a prefix letter and its digits.
PrefixedInteger(v, letters, digits) ==
    \E a \in 1..2 : \E z \in (Len(v) - 1)..Len(v) :
        /\ z >= a + 2
        /\ a = 2 => v[1] \in {"+", "-"}
        /\ z = Len(v) - 1 => v[Len(v)] \in {"l", "L"}
        /\ v[a] = "0" /\ v[a + 1] \in letters
        /\ \A i \in (a + 2)..z : v[i] \in digits

C8_PrefixedIntegersAreNumbers ==
    (/\ ret.op = "is_valid_number" /\ ret.idx = None
     /\ \/ PrefixedInteger(value, {"b", "B"}, BinDigits)
        \/ PrefixedInteger(value, {"o", "O"}, OctDigits)
        \/ PrefixedInteger(value, {"x", "X"}, HexDigits)) => ret.b

(***************************************************************************)
(* Single items written over the double quote, the backslash, a letter and *)
(* the line feed, with allow_lax_strings off and on.                       *)
(***************************************************************************)
StrChars == {"\"", Backslash, "a", Newline}

InitString ==
    /\ value \in StringsUpTo(StrChars, MaxStrLen)
    /\ options \in {KgtkValueOptions(FALSE, lax, FALSE, FALSE,
                                     DEFAULT_ADDITIONAL_LANGUAGE_CODES) :
                       lax \in BOOLEAN}
    /\ values = None
    /\ ret = NoCall
    /\ threads = NoThreads

SpecString == InitString /\ [][Next]_vars

\* The number of consecutive backslashes that end just before position i.
RECURSIVE BackslashRun(_, _)
BackslashRun(v, i) ==
    IF i > 1 /\ v[i - 1] = "\\" THEN 1 + BackslashRun(v, i - 1) ELSE 0

StrictStringCall ==
    /\ ret.op = "is_valid_string" /\ ret.idx = None
    /\ ~options.allow_lax_strings
    /\ Len(value) > 0 /\ value[1] = "\""

TagChars == {"m", "n", "o", "M", "-"}
LqPrefix == <<"'", "a", "'", "@">>
CodeLists ==
    { DEFAULT_ADDITIONAL_LANGUAGE_CODES,
      << <<"m","o","-","m">> >>,
      << <<"m","m">>, <<"m","m","-","o">> >> }

InitLq ==
    /\ value \in {LqPrefix \o tag : tag \in StringsUpTo(TagChars, MaxTagLen)}
    /\ options \in {KgtkValueOptions(FALSE, FALSE, FALSE, addl, codes) :
                       addl \in BOOLEAN, codes \in CodeLists}
    /\ values = None
    /\ ret = NoCall
    /\ threads = NoThreads

SpecLq == InitLq /\ [][Next]_vars

\* The tag of the cell of the state, and its lowercase form.
Tag == SubSeq(value, Len(LqPrefix) + 1, Len(value))
LowerTag == [i \in 1..Len(Tag) |->
                IF Tag[i] \in Upper
                THEN LowerSeq[CHOOSE k \in 1..26 : UpperSeq[k] = Tag[i]]
                ELSE Tag[i]]
\* The tag is two or three letters, then possibly a dash and letters.
TagWellFormed ==
    \E k \in {2, 3} :
        /\ k <= Len(Tag)
        /\ \A i \in 1..k : Tag[i] \in Letters
        /\ \/ Len(Tag) = k
           \/ /\ Len(Tag) >= k + 2
              /\ Tag[k + 1] = "-"
              /\ \A i \in (k + 2)..Len(Tag) : Tag[i] \in Letters
\* The lowercase tag up to its first dash.
PrimaryTag ==
    IF "-" \in Range(LowerTag)
    THEN SubSeq(LowerTag, 1, (CHOOSE i \in 1..Len(LowerTag) :
                                 LowerTag[i] = "-"
                                 /\ \A j \in 1..(i - 1) : LowerTag[j] # "-") - 1)
    ELSE LowerTag
Registries == Alpha2 \cup Alpha3 \cup Part5
\* A well-formed language-qualified string whose tag fails every lookup.
UnregisteredLqCall ==
    /\ ret.op = "is_valid_language_qualified_string" /\ ret.idx = None
    /\ SubSeq(value, 1, Len(LqPrefix)) = LqPrefix
    /\ TagWellFormed
    /\ LowerTag \notin Registries
    /\ PrimaryTag \notin Registries

(***************************************************************************)
(* C10 as stated: a well-formed language-qualified string whose tag fails  *)
(* every registry lookup is valid iff allow_additional_language_codes is   *)
(* set and the whole lowercased tag, sub-tag included, is a member of      *)
(* additional_language_codes.                                              *)
(***************************************************************************)
C10_Original ==
    UnregisteredLqCall =>
        ret.b = (/\ options.allow_additional_language_codes
                 /\ LowerTag \in Range(options.additional_language_codes))

(***************************************************************************)
(* C10 as amended: a well-formed language-qualified string whose tag fails *)
(* every registry lookup is valid iff allow_additional_language_codes is   *)
(* set and the primary part of the lowercased tag (the tag without its     *)
(* '-sub-tag') is a member of additional_language_codes; with the flag off *)
(* the contents of additional_language_codes never change the result.      *)
(***************************************************************************)
C10_AdditionalCodesOnPrimaryTag ==
    UnregisteredLqCall =>
        /\ ret.b = (/\ options.allow_additional_language_codes
                    /\ PrimaryTag \in Range(options.additional_language_codes))
        /\ ~options.allow_additional_language_codes => ~ret.b

\* The call returned True for a tag with a sub-tag whose primary part is an
\* additional code.
C10_Witness ==
    /\ UnregisteredLqCall /\ ret.b
    /\ "-" \in Range(Tag)
    /\ Tag # LowerTag

(***************************************************************************)
(* Language-qualified strings 'a'@tag whose tag is a primary part over a   *)
(* few letters of both cases, alone or followed by a dash and a sub-tag,   *)
(* with the additional codes off and on.                                   *)
(***************************************************************************)
PrimaryChars == {"m", "n", "o", "M"}
SubTagChars == {"m", "M"}
SubTags == {<<>>} \cup {<<"-">> \o s : s \in StringsUpTo(SubTagChars, MaxSubTagLen)}

InitLqTag ==
    /\ value \in {LqPrefix \o p \o s :
                     p \in StringsUpTo(PrimaryChars, MaxPrimaryLen), s \in SubTags}
    /\ options \in {KgtkValueOptions(FALSE, FALSE, FALSE, addl,
                                     DEFAULT_ADDITIONAL_LANGUAGE_CODES) :
                       addl \in BOOLEAN}
    /\ values = None
    /\ ret = NoCall
    /\ threads = NoThreads

SpecLqTag == InitLqTag /\ [][Next]_vars

\* The primary tag passes the lookup for its length.
PrimaryTagRegistered ==
    \/ Len(PrimaryTag) = 2 /\ PrimaryTag \in Alpha2
    \/ Len(PrimaryTag) = 3 /\ PrimaryTag \in Alpha3 \cup Part5

(***************************************************************************)
(* C11: with allow_additional_language_codes off, a well-formed            *)
(* language-qualified string is valid iff its primary tag (the tag         *)
(* lowercased, with any '-sub-tag' stripped) has length 2 and is in the    *)
(* alpha-2 registry, or has length 3 and is in the alpha-3 registry or the *)
(* ISO 639-5 registry; the letter case of the tag and the sub-tag do not   *)
(* change the result.                                                      *)
(***************************************************************************)
C11_RegistryCascadeOnPrimaryTag ==
    (/\ ret.op = "is_valid_language_qualified_string" /\ ret.idx = None
     /\ ~options.allow_additional_language_codes
     /\ TagWellFormed) => ret.b = PrimaryTagRegistered

\* The call returned True, with the additional codes off, for a tag with an
\* upper-case letter in its primary part and a sub-tag.
C11_Witness ==
    /\ ret.op = "is_valid_language_qualified_string" /\ ret.idx = None /\ ret.b
    /\ ~options.allow_additional_language_codes
    /\ TagWellFormed
    /\ "-" \in Range(Tag)
    /\ PrimaryTag # SubSeq(Tag, 1, Len(PrimaryTag))

(***************************************************************************)
(* Location coordinates @lat/lon, each coordinate an optional sign, an     *)
(* optional integer part around the range limits and an optional fraction. *)
(***************************************************************************)
CoordinateSigns == {<<>>, <<"+">>, <<"-">>}
CoordinateInts == {<<>>, <<"0">>, <<"9","0">>, <<"9","1">>, <<"1","8","0">>, <<"1","8","1">>}
CoordinateFractions == {<<>>, <<".">>, <<".","0">>, <<".","5">>}
Coordinates ==
    {s \o n \o f : s \in CoordinateSigns, n \in CoordinateInts, f \in CoordinateFractions}

InitLocation ==
    /\ value \in {<<"@">> \o lat \o <<"/">> \o lon : lat \in Coordinates, lon \in Coordinates}
    /\ options = DEFAULT_KGTK_VALUE_OPTIONS
    /\ values = None
    /\ ret = NoCall
    /\ threads = NoThreads

SpecLocation == InitLocation /\ [][Next]_vars

\* The text between '@' and the first '/', and the text after that '/'.
SlashAt == CHOOSE i \in 1..Len(value) : value[i] = "/" /\ \A j \in 1..(i - 1) : value[j] # "/"
LatText == SubSeq(value, 2, SlashAt - 1)
LonText == SubSeq(value, SlashAt + 1, Len(value))

\* An optional sign, then digits with an optional fraction or a bare
\* fraction: one dot at most and one digit at least.
SignedDecimal(str) ==
    LET body == IF Len(str) > 0 /\ str[1] \in {"+", "-"} THEN Tail(str) ELSE str
    IN  /\ Range(body) \subseteq Digits \cup {"."}
        /\ Cardinality({i \in 1..Len(body) : body[i] = "."}) <= 1
        /\ \E i \in 1..Len(body) : body[i] \in Digits
\* -bound <= str <= bound, for a signed decimal str.
WithinRange(str, bound) ==
    ~(float_lt_minus(float(str), bound) \/ float_gt(float(str), bound))

(***************************************************************************)
(* C12: an item @lat/lon is valid location coordinates iff lat and lon are *)
(* decimals, each an optional sign followed by an integer part with an     *)
(* optional fraction or by a bare fraction ('.5', '+.5' and '-.5' are      *)
(* decimals), with lat in [-90, 90] and lon in [-180, 180], bounds         *)
(* included.                                                               *)
(***************************************************************************)
C12_LocationCoordinatesForm ==
    (ret.op = "is_valid_location_coordinates" /\ ret.idx = None) =>
        ret.b = (/\ SignedDecimal(LatText) /\ SignedDecimal(LonText)
                 /\ WithinRange(LatText, 90) /\ WithinRange(LonText, 180))

\* The same, read for the coordinates that are not a sign before a bare
\* fraction.
SignedBareFraction(str) == Len(str) > 1 /\ str[1] \in {"+", "-"} /\ str[2] = "."
LocationCoordinatesFormUnsigned ==
    (~SignedBareFraction(LatText) /\ ~SignedBareFraction(LonText)) =>
        C12_LocationCoordinatesForm

(***************************************************************************)
(* Date-and-times items ^1960[-]MM[-]DDT00[:]MM[:]SS[zone][/9] of every    *)
(* shape: month, day, minute and second present or not, each separator     *)
(* present or not, with the zone suffixes of the docstring and of the      *)
(* pattern, with and without a precision, fields in range.                 *)
(***************************************************************************)
Absent == <<>>
DateZones ==
    { Absent, <<"Z">>,
      <<"+","0","1">>, <<"-","0","1">>,
      <<"+","0","1","0","0">>, <<"-","0","1","0","0">>,
      <<"+","0","1",":","0","0">>, <<"-","0","1",":","0","0">>,
      <<"[","-","]","0","1">> }
DateShapes ==
    {d \in [hyphen1 : BOOLEAN, month : {Absent, <<"0","1">>},
            hyphen2 : BOOLEAN, day : {Absent, <<"0","1">>},
            colon1 : BOOLEAN, minute : {Absent, <<"0","0">>},
            colon2 : BOOLEAN, second : {Absent, <<"0","0">>},
            zone : DateZones, precision : {Absent, <<"/","9">>}] :
        /\ d.month = Absent => (~d.hyphen1 /\ d.day = Absent)
        /\ d.day = Absent => ~d.hyphen2
        /\ d.minute = Absent => (~d.colon1 /\ d.second = Absent)
        /\ d.second = Absent => ~d.colon2}

\* The item text of a shape.
DateText(d) ==
    <<"^","1","9","6","0">>
        \o (IF d.hyphen1 THEN <<"-">> ELSE <<>>) \o d.month
        \o (IF d.hyphen2 THEN <<"-">> ELSE <<>>) \o d.day
        \o <<"T","0","0">>
        \o (IF d.colon1 THEN <<":">> ELSE <<>>) \o d.minute
        \o (IF d.colon2 THEN <<":">> ELSE <<>>) \o d.second
        \o d.zone \o d.precision

InitDate ==
    /\ value \in {DateText(d) : d \in DateShapes}
    /\ options \in {KgtkValueOptions(mdz, FALSE, FALSE, FALSE,
                                     DEFAULT_ADDITIONAL_LANGUAGE_CODES) :
                       mdz \in BOOLEAN}
    /\ values = None
    /\ ret = NoCall
    /\ threads = NoThreads

SpecDate == InitDate /\ [][Next]_vars

\* The shapes of the cell of the state.
ShapesOfValue == {d \in DateShapes : DateText(d) = value}
DateCall == ret.op = "is_valid_date_and_times" /\ ret.idx = None

\* Every separator that can be present is present, or none is.
AllSeparators(d) ==
    /\ d.month # Absent => d.hyphen1
    /\ d.day # Absent => d.hyphen2
    /\ d.minute # Absent => d.colon1
    /\ d.second # Absent => d.colon2
NoSeparators(d) == ~d.hyphen1 /\ ~d.hyphen2 /\ ~d.colon1 /\ ~d.colon2
\* ^YYYYTHH, ^YYYY-MMTHH, ^YYYY-MM-DDTHH, ^YYYY-MM-DDTHH:MM and the full
\* form, and their separator-free forms, without zone and precision.
TrailingFieldsShape(d) ==
    /\ AllSeparators(d) \/ NoSeparators(d)
    /\ d.minute # Absent => d.day # Absent
    /\ d.zone = Absent /\ d.precision = Absent

(***************************************************************************)
(* C13: month, day, minute and second are optional trailing components of  *)
(* a date-and-times item: with fields in range, the items of the shapes    *)
(* ^YYYYTHH, ^YYYY-MMTHH, ^YYYY-MM-DDTHH, ^YYYY-MM-DDTHH:MM, their         *)
(* separator-free forms and the full form ^YYYY-MM-DDTHH:MM:SS are valid.  *)
(***************************************************************************)
C13_TrailingFieldsOptional ==
    DateCall => \A d \in ShapesOfValue : TrailingFieldsShape(d) => ret.b

\* The zone suffixes of the docstring: Z, or a sign, a two-digit hour and an
\* optional two-digit minute with or without a colon.
SignedZones ==
    {<<s>> \o <<"0","1">> \o m :
        s \in {"+", "-"}, m \in {<<>>, <<"0","0">>, <<":","0","0">>}}
DocumentedZones == {<<"Z">>} \cup SignedZones
\* The item of shape d is valid under the options of the state.
ValidShape(d) == is_valid_date_and_times(KgtkValue(DateText(d), options), None)

(***************************************************************************)
(* C14: a date-and-times item that is valid without a zone stays valid     *)
(* when a time-zone suffix is appended after the time, the suffix being Z  *)
(* or one of +HH, -HH, +HHMM, -HHMM, +HH:MM, -HH:MM.                       *)
(***************************************************************************)
C14_ZoneSuffixKeepsValid ==
    DateCall =>
        \A d \in ShapesOfValue :
            (d.zone \in DocumentedZones /\ ValidShape([d EXCEPT !.zone = Absent]))
                => ret.b

\* The same for the suffix Z alone.
ZoneZKeepsValid ==
    DateCall =>
        \A d \in ShapesOfValue :
            (d.zone = <<"Z">> /\ ValidShape([d EXCEPT !.zone = Absent])) => ret.b

(***************************************************************************)
(* Full date-and-times items ^1960-MM-DDT00:00:00 and ^1960MMDDT000000,    *)
(* alone or followed by Z/9, for every month number up to MaxMonth and     *)
(* every day number up to MaxDay, with allow_month_or_day_zero off and on. *)
(***************************************************************************)
TwoDigits(n) == <<DigitSeq[(n \div 10) + 1], DigitSeq[(n % 10) + 1]>>
MonthDayShapes ==
    [hyphen : BOOLEAN, month : 0..MaxMonth, day : 0..MaxDay,
     tail : {Absent, <<"Z","/","9">>}]
MonthDayText(d) ==
    DateText([hyphen1 |-> d.hyphen, month |-> TwoDigits(d.month),
              hyphen2 |-> d.hyphen, day |-> TwoDigits(d.day),
              colon1 |-> d.hyphen, minute |-> <<"0","0">>,
              colon2 |-> d.hyphen, second |-> <<"0","0">>,
              zone |-> Absent, precision |-> d.tail])

InitMonthDay ==
    /\ value \in {MonthDayText(d) : d \in MonthDayShapes}
    /\ options \in {KgtkValueOptions(mdz, FALSE, FALSE, FALSE,
                                     DEFAULT_ADDITIONAL_LANGUAGE_CODES) :
                       mdz \in BOOLEAN}
    /\ values = None
    /\ ret = NoCall
    /\ threads = NoThreads

SpecMonthDay == InitMonthDay /\ [][Next]_vars

MonthDayOfValue == {d \in MonthDayShapes : MonthDayText(d) = value}
\* The least month and day number the options allow.
LeastMonthOrDay == IF options.allow_month_or_day_zero THEN 0 ELSE 1

(***************************************************************************)
(* C15: an otherwise well-formed date-and-times item is valid, with        *)
(* allow_month_or_day_zero off, iff its month is 01..12 and its day        *)
(* 01..31, and with allow_month_or_day_zero on, iff its month is 00..12    *)
(* and its day 00..31; the day is not checked against the month, and       *)
(* ^1960-00-00T00:00:00Z/9 is invalid with the flag off and valid with it  *)
(* on.                                                                     *)
(***************************************************************************)
C15_MonthAndDayRanges ==
    DateCall =>
        /\ \A d \in MonthDayOfValue :
               ret.b = (/\ d.month \in LeastMonthOrDay..12
                        /\ d.day \in LeastMonthOrDay..31)
        /\ value = MonthDayText([hyphen |-> TRUE, month |-> 0, day |-> 0,
                                 tail |-> <<"Z","/","9">>])
              => ret.b = options.allow_month_or_day_zero

\* The call returned True for the 31st of month 02 with the flag off.
C15_Witness ==
    /\ DateCall /\ ret.b /\ ~options.allow_month_or_day_zero
    /\ \E d \in MonthDayOfValue : d.month = 2 /\ d.day = 31

(***************************************************************************)
(* C16: separator usage in a valid date-and-times item is consistent: no   *)
(* valid item has a hyphen before the month and none before the day, or    *)
(* one before the day and none before the month, and no valid item has a   *)
(* colon before the minute and none before the second, or one before the   *)
(* second and none before the minute.                                      *)
(***************************************************************************)
C16_SeparatorsConsistent ==
    (DateCall /\ ret.b) =>
        \A d \in ShapesOfValue :
            /\ d.hyphen1 = d.hyphen2
            /\ d.colon1 = d.colon2

\* The call returned False for an item with every field, a hyphen before
\* the month and none before the day, and both colons.
C16_Witness ==
    /\ DateCall /\ ~ret.b
    /\ \E d \in ShapesOfValue :
           /\ d.hyphen1 /\ ~d.hyphen2 /\ d.day # Absent
           /\ d.colon1 /\ d.colon2 /\ d.second # Absent
           /\ d.zone = Absent /\ d.precision = Absent

(***************************************************************************)
(* Concurrent first calls of get_list on one cell.  Each of NumThreads     *)
(* threads runs get_list in three steps: the test of self.values, the      *)
(* split and the store when the test saw None, and the read of self.values *)
(* for the return.  got is what the call returned, None until it returns;  *)
(* split tells whether the thread computed the split.                      *)
(***************************************************************************)
Threads == 1..NumThreads

InitRace ==
    /\ value \in StringsUpTo(ListChars, MaxListLen)
    /\ options = DEFAULT_KGTK_VALUE_OPTIONS
    /\ values = None
    /\ ret = NoCall
    /\ threads = [t \in Threads |-> [pc |-> "test", split |-> FALSE, got |-> None]]

\* if self.values is None:
Test(t) ==
    /\ threads[t].pc = "test"
    /\ threads' = [threads EXCEPT ![t].pc = IF values = None THEN "store" ELSE "return"]
    /\ UNCHANGED <<value, options, values, ret>>

\* Mutant: the split is added to what the cache holds, so that a second
\* computation is not idempotent.
StoreAppending(t) ==
    /\ threads[t].pc = "store"
    /\ values' = IF values = None THEN << re_split(value, 1, 1) >>
                 ELSE << values[1] \o re_split(value, 1, 1) >>
    /\ threads' = [threads EXCEPT ![t].pc = "return", ![t].split = TRUE]
    /\ UNCHANGED <<value, options, ret>>

\* self.values = KgtkValue.split_list_re.split(self.value)
Store(t) ==
    /\ threads[t].pc = "store"
    /\ values' = << re_split(value, 1, 1) >>
    /\ threads' = [threads EXCEPT ![t].pc = "return", ![t].split = TRUE]
    /\ UNCHANGED <<value, options, ret>>

\* return self.values
Return(t) ==
    /\ threads[t].pc = "return"
    /\ threads' = [threads EXCEPT ![t].pc = "done", ![t].got = values]
    /\ UNCHANGED <<value, options, values, ret>>

NextRace == \E t \in Threads : Test(t) \/ Store(t) \/ Return(t)

SpecRace == InitRace /\ [][NextRace]_vars

(***************************************************************************)
(* C17: under any interleaving of two or more concurrent first calls of    *)
(* get_list on one cell, every call returns the split of the cell text,    *)
(* and whenever the cache is set it holds that split; a race only repeats  *)
(* the computation of the split.                                           *)
(***************************************************************************)
C17_RaceOnlyDuplicatesWork ==
    /\ values # None => values = << re_split(value, 1, 1) >>
    /\ \A t \in DOMAIN threads :
           threads[t].pc = "done" => threads[t].got = << re_split(value, 1, 1) >>

\* Every call has returned, two of them computed the split, and the cell
\* is a list.
C17_Witness ==
    /\ threads # NoThreads
    /\ \A t \in Threads : threads[t].pc = "done"
    /\ \E t, u \in Threads : t # u /\ threads[t].split /\ threads[u].split
    /\ Len(values[1]) > 1

(***************************************************************************)
(* Single items: the items of ItemPool, valid and invalid items of every   *)
(* category, and every string up to MaxItemLen over the leading characters *)
(* of the categories, under every combination of the four flags.           *)
(***************************************************************************)
MoreItems ==
    { <<"\"","a","\"">>, <<"\"","a">>, <<"\"",Newline,"\"">>,
      <<"1","2","x","y","z">>, <<"1","m">>, <<"1","J">>, <<"0","x","1">>, <<"+">>,
      <<"'","a","'","@","o","m">>, <<"'","a","'","@","n","n">>,
      <<"'","a","'","b","'","@","o","m">>, <<"'",Newline,"'","@","o","m">>,
      <<"@","9","1","/","1">>, <<"@","+",".","5","/","1">>,
      <<"^","1","9","6","0","-","0","1","-","0","1","T","0","0",":","0","0",":","0","0">>,
      <<"^","1","9","6","0">>,
      <<"T","r","u","e">> }
ItemChars == {"\"", "'", "@", "^", "!", "1", "a", Newline}

InitItem ==
    /\ value \in ItemPool \cup MoreItems \cup StringsUpTo(ItemChars, MaxItemLen)
    /\ options \in Flags
    /\ values = None
    /\ ret = NoCall
    /\ threads = NoThreads

SpecItem == InitItem /\ [][Next]_vars

\* The labels describe gives to the items it found valid, and the others.
ValidLabels ==
    {"Empty", "String", "Number", "Quantity", "Language Qualified String",
     "Location Coordinates", "Date and Times", "Symbol"}
InvalidLabels ==
    {"Invalid String", "Invalid Number or Quantity",
     "Invalid Language Qualified String", "Invalid Location Coordinates",
     "Invalid Date and Times", "Invalid Structured Literal"}
ExtensionLabel == "Extension (unvalidated)"
\* A call on one item that returned: the cell is not a list.
SingleItemCall(op) == ret.op = op /\ ret.exc = "" /\ Len(ItemCells) = 1

LeniencyFlags ==
    {"allow_lax_strings", "allow_lax_lq_strings", "allow_month_or_day_zero",
     "allow_additional_language_codes"}
WithFlag(o, f) == [o EXCEPT ![f] = TRUE]

(***************************************************************************)
(* C19: turning a leniency flag on never makes a valid item invalid: an    *)
(* item that is valid with allow_lax_strings, allow_lax_lq_strings,        *)
(* allow_month_or_day_zero or allow_additional_language_codes off is valid *)
(* with that flag on and the other options unchanged.                      *)
(***************************************************************************)
C19_LeniencyIsMonotone ==
    (SingleItemCall("is_valid_item") /\ ret.b) =>
        \A f \in LeniencyFlags :
            is_valid_item(KgtkValue(value, WithFlag(options, f)), ret.idx)

\* The same for the flags other than the two that relax the string
\* patterns.
LeniencyIsMonotoneForDatesAndCodes ==
    (SingleItemCall("is_valid_item") /\ ret.b) =>
        \A f \in {"allow_month_or_day_zero", "allow_additional_language_codes"} :
            is_valid_item(KgtkValue(value, WithFlag(options, f)), ret.idx)

====
